---- MODULE Spec2Model ----
(***************************************************************************)
(* Course-section query service (mcp_service.py): the Record Normalizer,   *)
(* the Time Bucketer and the Query Engine capabilities, as a state machine *)
(* over an immutable in-memory dataset.                                    *)
(* The conversational client (course_advisor_agent.py): the Intent        *)
(* Resolver and the request/response loop of main().                       *)
(*                                                                         *)
(* A Python str is modelled as a sequence of one-character strings, so     *)
(* that strip/upper/lower/substring/regex are computed, not assumed.       *)
(* A raw JSON value is a tagged record (None, str or number).              *)
(* A Python exception is the value AttributeError, a one-element sequence  *)
(* holding a multi-character string, which no modelled str can equal.      *)
(***************************************************************************)
EXTENDS Integers, Sequences, FiniteSets, TLC

VARIABLES dataset, call, result, rec, fields, t, label, inBin, agent

vars == <<dataset, call, result, rec, fields, t, label, inBin, agent>>

(***************************************************************************)
(* Characters and Python str primitives                                    *)
(***************************************************************************)
LowerAlpha ==
    <<"a","b","c","d","e","f","g","h","i","j","k","l","m",
      "n","o","p","q","r","s","t","u","v","w","x","y","z">>

UpperAlpha ==
    <<"A","B","C","D","E","F","G","H","I","J","K","L","M",
      "N","O","P","Q","R","S","T","U","V","W","X","Y","Z">>

DigitChars == <<"0","1","2","3","4","5","6","7","8","9">>

DigitSet == {DigitChars[i] : i \in 1..Len(DigitChars)}

DigitValue == [c \in DigitSet |-> (CHOOSE i \in 1..Len(DigitChars) : DigitChars[i] = c) - 1]

IsDigit(c) == c \in DigitSet

DigitVal(c) == DigitValue[c]

ToUpper ==
    [c \in {LowerAlpha[i] : i \in 1..Len(LowerAlpha)} |->
        UpperAlpha[CHOOSE i \in 1..Len(LowerAlpha) : LowerAlpha[i] = c]]

ToLower ==
    [c \in {UpperAlpha[i] : i \in 1..Len(UpperAlpha)} |->
        LowerAlpha[CHOOSE i \in 1..Len(UpperAlpha) : UpperAlpha[i] = c]]

IsLowerCh(c) == c \in DOMAIN ToUpper

IsUpperCh(c) == c \in DOMAIN ToLower

UpperCh(c) == IF IsLowerCh(c) THEN ToUpper[c] ELSE c

LowerCh(c) == IF IsUpperCh(c) THEN ToLower[c] ELSE c

\* str.upper() / str.lower()
Upper(s) == [i \in 1..Len(s) |-> UpperCh(s[i])]

Lower(s) == [i \in 1..Len(s) |-> LowerCh(s[i])]

\* the characters str.strip() removes and the regex class \s matches
IsSpace(c) == c \in {" ", "\t", "\n"}

\* the regex class \w (for \b)
IsWord(c) == IsDigit(c) \/ IsLowerCh(c) \/ IsUpperCh(c) \/ c = "_"

\* s[a-1:b] of Python: the characters at positions a..b (1-based, inclusive)
Slice(s, a, b) == IF a > b THEN <<>> ELSE SubSeq(s, a, b)

\* str.lstrip(chars) / str.rstrip(chars)
RECURSIVE LStripChars(_, _)
LStripChars(s, cs) ==
    IF s = <<>> \/ s[1] \notin cs THEN s ELSE LStripChars(Tail(s), cs)

RECURSIVE RStripChars(_, _)
RStripChars(s, cs) ==
    IF s = <<>> \/ s[Len(s)] \notin cs THEN s
    ELSE RStripChars(SubSeq(s, 1, Len(s) - 1), cs)

\* str.strip(chars): drop leading and trailing characters of the set
StripChars(s, cs) == RStripChars(LStripChars(s, cs), cs)

\* str.strip()
Strip(s) == StripChars(s, {" ", "\t", "\n"})

\* s.startswith(p)
StartsWith(s, p) == Len(p) <= Len(s) /\ SubSeq(s, 1, Len(p)) = p

\* p occurs in s at position i
OccursAt(s, p, i) ==
    /\ i >= 1
    /\ i + Len(p) - 1 <= Len(s)
    /\ \A j \in 1..Len(p) : s[i + j - 1] = p[j]

\* the Python operator  p in s
InStr(p, s) == \E i \in 1..(Len(s) + 1) : OccursAt(s, p, i)

\* str(n) for an integer n >= 0
RECURSIVE IntToStr(_)
IntToStr(n) ==
    IF n < 10 THEN <<DigitChars[n + 1]>>
    ELSE IntToStr(n \div 10) \o <<DigitChars[(n % 10) + 1]>>

\* int(s) for a run of decimal digits
RECURSIVE StrToInt(_)
StrToInt(s) ==
    IF s = <<>> THEN 0
    ELSE 10 * StrToInt(SubSeq(s, 1, Len(s) - 1)) + DigitVal(s[Len(s)])

\* the non-ASCII characters of the source, each one character, named
EnDash == "U+2013"

Ellipsis == "U+2026"

\* a run of n copies of the character c
Repeat(c, n) == [i \in 1..n |-> c]

(***************************************************************************)
(* Raw JSON values and records                                             *)
(***************************************************************************)
None == [k |-> "none", s |-> <<>>, n |-> 0]

Str(x) == [k |-> "str", s |-> x, n |-> 0]

Num(x) == [k |-> "num", s |-> <<>>, n |-> x]

\* what a failed attribute lookup ((5).strip()) raises
AttributeError == <<"AttributeError">>

Raised(x) == x = AttributeError

\* Python truthiness of a JSON value: None, "" and 0 are falsy
Truthy(v) ==
    \/ v.k = "str" /\ v.s # <<>>
    \/ v.k = "num" /\ v.n # 0

\* the keys the service reads from a raw record
Keys ==
    {"Subject", "Department", "department", "Crs_Number", "Sec_Number",
     "Section_Name", "Section_Title", "CourseTitle", "course_title",
     "Desc", "CourseDescription", "description", "AcadLevel",
     "MtgPattern", "StartDt", "EndDt", "Period_RefID"}

\* s.get(key): None for an absent key and for a null value
Get(s, key) == s[key]

\* str(v or ""): the coercion used for Crs_Number, Sec_Number, AcadLevel
StrOf(v) ==
    IF ~Truthy(v) THEN <<>>
    ELSE IF v.k = "str" THEN v.s
    ELSE IntToStr(v.n)

(***************************************************************************)
(* Record Normalizer (mcp_service.py, lines 69-124)                        *)
(***************************************************************************)
\* _norm(s) = (s or "").strip(); a truthy non-str value has no strip()
_norm(v) ==
    IF ~Truthy(v) THEN <<>>
    ELSE IF v.k = "str" THEN Strip(v.s)
    ELSE AttributeError

\* _norm(str(s.get(key) or ""))
NormStrOf(s, key) == Strip(StrOf(Get(s, key)))

\* a or b or c or "": the first truthy value, else ""
FirstTruthy(s, k1, k2, k3) ==
    IF Truthy(Get(s, k1)) THEN Get(s, k1)
    ELSE IF Truthy(Get(s, k2)) THEN Get(s, k2)
    ELSE IF Truthy(Get(s, k3)) THEN Get(s, k3)
    ELSE Str(<<>>)

sec_raw_id(s) ==
    LET subj == _norm(Get(s, "Subject"))
        num  == NormStrOf(s, "Crs_Number")
        sec  == NormStrOf(s, "Sec_Number")
        name == _norm(Get(s, "Section_Name"))
        title  == _norm(Get(s, "Section_Title"))
        period == _norm(Get(s, "Period_RefID"))
    IN  IF Raised(subj) \/ Raised(name) THEN AttributeError
        ELSE IF subj # <<>> /\ num # <<>> /\ sec # <<>>
             THEN subj \o <<" ">> \o num \o <<"-">> \o sec
        ELSE IF name # <<>> THEN name
        ELSE IF Raised(title) \/ Raised(period) THEN AttributeError
        ELSE title \o <<"|">> \o period

sec_id(s) == sec_raw_id(s)

sec_name(s) ==
    LET name == _norm(Get(s, "Section_Name"))
        subj == _norm(Get(s, "Subject"))
        num  == NormStrOf(s, "Crs_Number")
        sec  == NormStrOf(s, "Sec_Number")
    IN  IF Raised(name) THEN AttributeError
        ELSE IF name # <<>> THEN name
        ELSE IF Raised(subj) THEN AttributeError
        ELSE Strip(subj \o <<" ">> \o num \o <<"-">> \o sec)

sec_title(s) == _norm(FirstTruthy(s, "Section_Title", "CourseTitle", "course_title"))

sec_desc(s) == _norm(FirstTruthy(s, "Desc", "CourseDescription", "description"))

sec_dept(s) == _norm(FirstTruthy(s, "Subject", "Department", "department"))

\* re.fullmatch(r"[1-4]00", lvl)
FullMatchLevel(lvl) ==
    /\ Len(lvl) = 3
    /\ lvl[1] \in {"1", "2", "3", "4"}
    /\ lvl[2] = "0"
    /\ lvl[3] = "0"

\* re.search(r"(\d)", num): the positions of the digits of num
DigitPositions(x) == {i \in 1..Len(x) : IsDigit(x[i])}

MinOf(S) == CHOOSE i \in S : \A j \in S : i <= j

sec_level(s) ==
    LET lvl == NormStrOf(s, "AcadLevel")
        num == NormStrOf(s, "Crs_Number")
    IN  IF FullMatchLevel(lvl) THEN lvl
        ELSE IF DigitPositions(num) # {}
             THEN <<num[MinOf(DigitPositions(num))], "0", "0">>
             ELSE <<>>

sec_time_str(s) ==
    LET mtg   == _norm(Get(s, "MtgPattern"))
        start == _norm(Get(s, "StartDt"))
        end   == _norm(Get(s, "EndDt"))
    IN  IF Raised(mtg) THEN AttributeError
        ELSE IF mtg # <<>> THEN mtg
        ELSE IF Raised(start) \/ Raised(end) THEN AttributeError
        ELSE StripChars(start \o <<" ", EnDash, " ">> \o end, {" ", EnDash})

(***************************************************************************)
(* Time Bucketer (mcp_service.py, lines 126-149)                           *)
(***************************************************************************)
morning == <<"m","o","r","n","i","n","g">>

afternoon == <<"a","f","t","e","r","n","o","o","n">>

evening == <<"e","v","e","n","i","n","g">>

\* _DEF_BINS: label -> (lo, hi), both "HH:MM"
_DEF_BINS ==
    { [name |-> morning,   lo |-> <<"0","6",":","0","0">>, hi |-> <<"1","1",":","5","9">>],
      [name |-> afternoon, lo |-> <<"1","2",":","0","0">>, hi |-> <<"1","7",":","0","0">>],
      [name |-> evening,   lo |-> <<"1","7",":","0","1">>, hi |-> <<"2","2",":","5","9">>] }

BinNames == {b.name : b \in _DEF_BINS}

BinOf(name) == CHOOSE b \in _DEF_BINS : b.name = name

\* the code point of a character of a formatted "HH:MM"
Ord(c) == CASE IsDigit(c) -> 48 + DigitVal(c)
            [] c = ":"    -> 58

\* a <= b on Python str: lexicographic by code point, a proper prefix first
StrLe(a, b) ==
    LET n == IF Len(a) < Len(b) THEN Len(a) ELSE Len(b)
        d == {i \in 1..n : a[i] # b[i]}
    IN  IF d = {} THEN Len(a) <= Len(b)
        ELSE Ord(a[MinOf(d)]) < Ord(b[MinOf(d)])

\* position i of s holds a \w character
WordAt(s, i) == i \in 1..Len(s) /\ IsWord(s[i])

\* \b(\d{1,2}):(\d{2})\b matches at i with a k-digit hour
HHMMAt(s, i, k) ==
    /\ i >= 1
    /\ i + k + 2 <= Len(s)
    /\ \A j \in i..(i + k - 1) : IsDigit(s[j])
    /\ s[i + k] = ":"
    /\ IsDigit(s[i + k + 1])
    /\ IsDigit(s[i + k + 2])
    /\ ~WordAt(s, i - 1)
    /\ ~WordAt(s, i + k + 3)

\* re.search(r"\b(\d{1,2}):(\d{2})\b", t): the leftmost match, greedy hour
TimeSearch(s) ==
    LET hits == {i \in 1..Len(s) : HHMMAt(s, i, 1) \/ HHMMAt(s, i, 2)}
    IN  IF hits = {} THEN [found |-> FALSE, hh |-> <<>>, mm |-> <<>>]
        ELSE LET i == MinOf(hits)
                 k == IF HHMMAt(s, i, 2) THEN 2 ELSE 1
             IN  [found |-> TRUE,
                  hh |-> SubSeq(s, i, i + k - 1),
                  mm |-> SubSeq(s, i + k + 1, i + k + 2)]

\* re.search(r"\bTOK\b", pre, re.IGNORECASE), tok in upper case
TokenSearch(pre, tok) ==
    \E i \in 1..Len(pre) :
        /\ OccursAt(Upper(pre), tok, i)
        /\ ~WordAt(pre, i - 1)
        /\ ~WordAt(pre, i + Len(tok))

\* t[:t.find("-")] if "-" in t else t
BeforeDash(s) ==
    LET d == {i \in 1..Len(s) : s[i] = "-"}
    IN  IF d = {} THEN s ELSE SubSeq(s, 1, MinOf(d) - 1)

\* the hour after the PM rule and then the AM rule
Hour24(s) ==
    LET h0  == StrToInt(TimeSearch(s).hh)
        pre == BeforeDash(s)
        h1  == IF TokenSearch(pre, <<"P","M">>) /\ h0 # 12 THEN h0 + 12 ELSE h0
    IN  IF TokenSearch(pre, <<"A","M">>) /\ h1 = 12 THEN 0 ELSE h1

\* the hour formatted without its leading zero
Pad2Unpadded(n) == IntToStr(n)

\* f"{hh:02d}"
Pad2(n) == IF n < 10 THEN <<"0">> \o IntToStr(n) ELSE IntToStr(n)

\* f"{hh:02d}:{mm}"
StartOf(s) == Pad2(Hour24(s)) \o <<":">> \o TimeSearch(s).mm

_time_in_bin(s, lab) ==
    IF lab \notin BinNames \/ s = <<>> THEN FALSE
    ELSE IF ~TimeSearch(s).found THEN FALSE
    ELSE StrLe(BinOf(lab).lo, StartOf(s)) /\ StrLe(StartOf(s), BinOf(lab).hi)

(***************************************************************************)
(* Query Engine (mcp_service.py, lines 155-314)                            *)
(***************************************************************************)
BlankRecord == [key \in Keys |-> None]

\* a capability either returns a list, returns one raw record (rec holds
\* it), returns the not-found mapping, or raises
ListResult(items) == [kind |-> "list", items |-> items, rec |-> <<>>, id |-> <<>>]

RecordResult(s) == [kind |-> "record", items |-> <<>>, rec |-> <<s>>, id |-> <<>>]

NotFoundResult(sid) == [kind |-> "not found", items |-> <<>>, rec |-> <<>>, id |-> sid]

RaiseResult == [kind |-> "raise", items |-> <<>>, rec |-> <<>>, id |-> <<>>]

NoResult == [kind |-> "none", items |-> <<>>, rec |-> <<>>, id |-> <<>>]

\* _contains(a, b) = b.lower() in a.lower()
_contains(a, b) == InStr(Lower(b), Lower(a))

\* title + "\n" + desc
TitleDesc(s) == sec_title(s) \o <<"\n">> \o sec_desc(s)

\* the summary of find_courses
Summary6(s) ==
    [section_id |-> sec_id(s), section_name |-> sec_name(s),
     course_title |-> sec_title(s), department |-> sec_dept(s),
     level |-> sec_level(s), time |-> sec_time_str(s)]

\* the summary of find_sections and find_sections_by_department
Summary4(s) ==
    [section_id |-> sec_id(s), section_name |-> sec_name(s),
     course_title |-> sec_title(s), time |-> sec_time_str(s)]

\* the summary of find_sections_by_level and find_sections_by_time
Summary3(s) ==
    [section_id |-> sec_id(s), section_name |-> sec_name(s),
     course_title |-> sec_title(s)]

\* building the summary raised
SummaryRaises(sm) == \E f \in DOMAIN sm : Raised(sm[f])

RECURSIVE FindCoursesFrom(_, _, _, _)
FindCoursesFrom(ds, q, i, out) ==
    IF i > Len(ds) THEN ListResult(out)
    ELSE IF Raised(sec_title(ds[i])) \/ Raised(sec_desc(ds[i])) THEN RaiseResult
    ELSE IF _contains(TitleDesc(ds[i]), q)
         THEN IF SummaryRaises(Summary6(ds[i])) THEN RaiseResult
              ELSE FindCoursesFrom(ds, q, i + 1, Append(out, Summary6(ds[i])))
         ELSE FindCoursesFrom(ds, q, i + 1, out)

find_courses(ds, query) == FindCoursesFrom(ds, Strip(query), 1, <<>>)

RECURSIVE FindSectionsFrom(_, _, _, _)
FindSectionsFrom(ds, q, i, out) ==
    IF i > Len(ds) THEN ListResult(out)
    ELSE IF Raised(sec_title(ds[i])) THEN RaiseResult
    ELSE IF _contains(sec_title(ds[i]), q)
         THEN IF SummaryRaises(Summary4(ds[i])) THEN RaiseResult
              ELSE FindSectionsFrom(ds, q, i + 1, Append(out, Summary4(ds[i])))
         ELSE FindSectionsFrom(ds, q, i + 1, out)

find_sections(ds, course_title) == FindSectionsFrom(ds, Strip(course_title), 1, <<>>)

\* the department compared for equality only
DeptMatchExact(subj, d) == subj = d

\* subj == d or subj.startswith(d)
DeptMatch(subj, d) == subj = d \/ StartsWith(subj, d)

RECURSIVE ByDepartmentFrom(_, _, _, _)
ByDepartmentFrom(ds, d, i, out) ==
    IF i > Len(ds) THEN ListResult(out)
    ELSE IF Raised(sec_dept(ds[i])) THEN RaiseResult
    ELSE IF DeptMatch(Upper(sec_dept(ds[i])), d)
         THEN IF SummaryRaises(Summary4(ds[i])) THEN RaiseResult
              ELSE ByDepartmentFrom(ds, d, i + 1, Append(out, Summary4(ds[i])))
         ELSE ByDepartmentFrom(ds, d, i + 1, out)

find_sections_by_department(ds, department) ==
    ByDepartmentFrom(ds, Upper(Strip(department)), 1, <<>>)

\* (\d)\s*LIT matches at i; the pattern allows whitespace iff ws, and is
\* compiled with re.I iff ci (lit in lower case)
DigitLitAt(x, i, lit, ws, ci) ==
    /\ IsDigit(x[i])
    /\ \E k \in 0..(IF ws THEN Len(x) - i ELSE 0) :
          /\ \A j \in (i + 1)..(i + k) : IsSpace(x[j])
          /\ OccursAt(IF ci THEN Lower(x) ELSE x, lit, i + k + 1)

DigitLitHits(x, lit, ws, ci) == {i \in 1..Len(x) : DigitLitAt(x, i, lit, ws, ci)}

\* level\s*(\d), re.I: the positions of the captured digit, by match start
LevelWordAt(x, i, k) ==
    /\ OccursAt(Lower(x), <<"l","e","v","e","l">>, i)
    /\ i + 5 + k <= Len(x)
    /\ \A j \in (i + 5)..(i + 4 + k) : IsSpace(x[j])
    /\ IsDigit(x[i + 5 + k])

LevelWordHits(x) == {i \in 1..Len(x) : \E k \in 0..Len(x) : LevelWordAt(x, i, k)}

LevelWordDigit(x) ==
    LET i == MinOf(LevelWordHits(x))
        k == CHOOSE k \in 0..Len(x) : LevelWordAt(x, i, k)
    IN  x[i + 5 + k]

\* re.sub(r"\D", "", level)
DigitsOf(x) == SelectSeq(x, IsDigit)

\* the level of find_sections_by_level: (\d)00, else (\d)xx, else first digit
LevelOfByLevel(level) ==
    IF DigitLitHits(level, <<"0","0">>, FALSE, FALSE) # {}
    THEN <<level[MinOf(DigitLitHits(level, <<"0","0">>, FALSE, FALSE))], "0", "0">>
    ELSE IF DigitLitHits(level, <<"x","x">>, FALSE, TRUE) # {}
    THEN <<level[MinOf(DigitLitHits(level, <<"x","x">>, FALSE, TRUE))], "0", "0">>
    ELSE IF DigitsOf(level) # <<>> THEN <<DigitsOf(level)[1], "0", "0">>
    ELSE <<>>

RECURSIVE ByLevelFrom(_, _, _, _)
ByLevelFrom(ds, lvl, i, out) ==
    IF i > Len(ds) THEN ListResult(out)
    ELSE IF sec_level(ds[i]) = lvl
         THEN IF SummaryRaises(Summary3(ds[i])) THEN RaiseResult
              ELSE ByLevelFrom(ds, lvl, i + 1, Append(out, Summary3(ds[i])))
         ELSE ByLevelFrom(ds, lvl, i + 1, out)

find_sections_by_level(ds, level) == ByLevelFrom(ds, LevelOfByLevel(level), 1, <<>>)

RECURSIVE ByTimeFrom(_, _, _, _)
ByTimeFrom(ds, b, i, out) ==
    IF i > Len(ds) THEN ListResult(out)
    ELSE IF Raised(sec_time_str(ds[i])) THEN RaiseResult
    ELSE IF _time_in_bin(sec_time_str(ds[i]), b)
         THEN IF SummaryRaises(Summary3(ds[i])) THEN RaiseResult
              ELSE ByTimeFrom(ds, b, i + 1, Append(out, Summary3(ds[i])))
         ELSE ByTimeFrom(ds, b, i + 1, out)

find_sections_by_time(ds, time_of_day) == ByTimeFrom(ds, Lower(Strip(time_of_day)), 1, <<>>)

RECURSIVE DetailsFrom(_, _, _)
DetailsFrom(ds, sid, i) ==
    IF i > Len(ds) THEN NotFoundResult(sid)
    ELSE IF Raised(sec_id(ds[i])) THEN RaiseResult
    ELSE IF sec_id(ds[i]) = sid THEN RecordResult(ds[i])
    ELSE DetailsFrom(ds, sid, i + 1)

\* the requested id compared as given
get_section_details_untrimmed(ds, section_id) == DetailsFrom(ds, section_id, 1)

get_section_details(ds, section_id) == DetailsFrom(ds, Strip(section_id), 1)

\* the length desc[:220] keeps
PreviewLen == 220

\* (desc[:220] + "...") if desc else "", the ellipsis being U+2026
Preview(desc) ==
    IF desc # <<>>
    THEN Slice(desc, 1, IF Len(desc) < PreviewLen THEN Len(desc) ELSE PreviewLen)
         \o <<Ellipsis>>
    ELSE <<>>

\* the summary of find_sections_filtered
Summary7(s) ==
    [section_id |-> sec_id(s), section_name |-> sec_name(s),
     course_title |-> sec_title(s), department |-> sec_dept(s),
     level |-> sec_level(s), time |-> sec_time_str(s),
     preview |-> Preview(sec_desc(s))]

\* _n(x).upper() if x else None; None and "" are both falsy where the
\* result is used, and both are the empty sequence here
FilterDep(department) ==
    IF Truthy(department) THEN Upper(Strip(department.s)) ELSE <<>>

\* _n(query) if query else None
FilterQuery(query) == IF Truthy(query) THEN Strip(query.s) ELSE <<>>

\* _n(time_of_day).lower() if time_of_day else None
FilterBucket(time_of_day) ==
    IF Truthy(time_of_day) THEN Lower(Strip(time_of_day.s)) ELSE <<>>

\* lines 271-280: (\d)\s*00, else (\d)\s*xx, else level\s*(\d), else the
\* first digit, else None
FilterLevel(level) ==
    IF ~Truthy(level) THEN <<>>
    ELSE LET x == level.s
         IN  IF DigitLitHits(x, <<"0","0">>, TRUE, FALSE) # {}
             THEN <<x[MinOf(DigitLitHits(x, <<"0","0">>, TRUE, FALSE))], "0", "0">>
             ELSE IF DigitLitHits(x, <<"x","x">>, TRUE, TRUE) # {}
             THEN <<x[MinOf(DigitLitHits(x, <<"x","x">>, TRUE, TRUE))], "0", "0">>
             ELSE IF LevelWordHits(x) # {}
             THEN <<LevelWordDigit(x), "0", "0">>
             ELSE IF DigitsOf(x) # <<>> THEN <<DigitsOf(x)[1], "0", "0">>
             ELSE <<>>

\* max(1, int(limit))
Cap(limit) == IF limit > 1 THEN limit ELSE 1

\* the break one result late
CapReachedLate(n, limit) == n > Cap(limit)

\* len(out) >= max(1, int(limit)): break
CapReached(n, limit) == n >= Cap(limit)

RECURSIVE FilteredFrom(_, _, _, _, _, _, _, _)
FilteredFrom(ds, q, dep, lvl, bucket, limit, i, out) ==
    IF i > Len(ds) THEN ListResult(out)
    ELSE
    LET s     == ds[i]
        title == sec_title(s)
        desc  == sec_desc(s)
        subj  == sec_dept(s)
        time  == sec_time_str(s)
        row   == Summary7(s)
    IN  IF Raised(title) \/ Raised(desc) THEN RaiseResult
        ELSE IF q # <<>> /\ ~InStr(Lower(q), Lower(title \o <<"\n">> \o desc))
             THEN FilteredFrom(ds, q, dep, lvl, bucket, limit, i + 1, out)
        ELSE IF dep # <<>> /\ Raised(subj) THEN RaiseResult
        ELSE IF dep # <<>> /\ ~DeptMatch(Upper(subj), dep)
             THEN FilteredFrom(ds, q, dep, lvl, bucket, limit, i + 1, out)
        ELSE IF lvl # <<>> /\ sec_level(s) # lvl
             THEN FilteredFrom(ds, q, dep, lvl, bucket, limit, i + 1, out)
        ELSE IF bucket # <<>> /\ Raised(time) THEN RaiseResult
        ELSE IF bucket # <<>> /\ ~_time_in_bin(time, bucket)
             THEN FilteredFrom(ds, q, dep, lvl, bucket, limit, i + 1, out)
        ELSE IF SummaryRaises(row) THEN RaiseResult
        ELSE IF CapReached(Len(out) + 1, limit)
             THEN ListResult(Append(out, row))
        ELSE FilteredFrom(ds, q, dep, lvl, bucket, limit, i + 1, Append(out, row))

find_sections_filtered(ds, query, department, level, time_of_day, limit) ==
    FilteredFrom(ds, FilterQuery(query), FilterDep(department), FilterLevel(level),
                 FilterBucket(time_of_day), limit, 1, <<>>)

(***************************************************************************)
(* Bounds and input pools                                                  *)
(***************************************************************************)
\* the longest dataset
MaxRecords == 2

\* the largest limit passed to find_sections_filtered
MaxLimit == 2

\* the largest hour written in a meeting-time text
MaxHour == 25

\* Scenario A of the specification, the course number a JSON number
RecCS262 ==
    [BlankRecord EXCEPT
        !["Subject"] = Str(<<"C","S">>), !["Crs_Number"] = Num(262),
        !["Sec_Number"] = Str(<<"0","1">>), !["Section_Title"] = Str(<<"E","n","g">>),
        !["Desc"] = Str(<<"A","I"," ","l","a","b">>),
        !["MtgPattern"] = Str(<<"M","W","F"," ","0","9",":","3","0"," ","A","M"," ","-"," ","1","0",":","2","0"," ","A","M">>)]

\* a named section with an explicit level and a description of 221 characters
RecCSCI300 ==
    [BlankRecord EXCEPT
        !["Subject"] = Str(<<"C","S","C","I">>), !["Crs_Number"] = Str(<<"3","0","0">>),
        !["Sec_Number"] = Str(<<"A">>), !["Section_Name"] = Str(<<"I","n","t","r","o">>),
        !["AcadLevel"] = Str(<<"3","0","0">>), !["Section_Title"] = Str(<<"A","I">>),
        !["Desc"] = Str(Repeat("a", PreviewLen + 1)),
        !["MtgPattern"] = Str(<<"T","T","H"," ","0","1",":","0","0"," ","P","M"," ","-"," ","0","2",":","1","5"," ","P","M">>)]

\* the record of test_mcp_tools.py: of its keys the service reads only
\* CourseTitle, CourseDescription and Department
RecFixture ==
    [BlankRecord EXCEPT
        !["Department"] = Str(<<"C","S">>), !["CourseTitle"] = Str(<<"E","n","g">>),
        !["CourseDescription"] = Str(<<"T","e","s","t">>)]

\* a record with no identity fields (the same id as RecFixture), an
\* evening meeting, the department and a description of exactly 220
\* characters under the lower-case alias keys
RecEvening ==
    [BlankRecord EXCEPT
        !["department"] = Str(<<"c","s">>), !["course_title"] = Str(<<"D","u","p">>),
        !["description"] = Str(Repeat("b", PreviewLen)),
        !["MtgPattern"] = Str(<<"W"," ","6",":","0","0"," ","P","M"," ","-"," ","8",":","5","0"," ","P","M">>)]

RecordPool == {RecCS262, RecCSCI300, RecFixture, RecEvening}

RECURSIVE SeqsUpTo(_, _)
SeqsUpTo(S, n) ==
    IF n = 0 THEN {<<>>}
    ELSE SeqsUpTo(S, n - 1) \cup
         {Append(q, x) : q \in {p \in SeqsUpTo(S, n - 1) : Len(p) = n - 1}, x \in S}

Datasets == SeqsUpTo(RecordPool, MaxRecords)

\* the arguments of the single-predicate capabilities
QueryPool == {<<" ","A","I"," ">>, <<"z","z">>}

DeptPool == {<<"C","S">>, <<" ","c","s"," ">>, <<"C","S","C","I">>}

LevelPool == {<<"2","0","0">>, <<"3","X","X">>, <<"1","2"," ","0","0">>, <<"1"," ","l","e","v","e","l"," ","3">>, <<"a","n","y">>}

TimePool == {morning, <<" ","E","v","e","n","i","n","g"," ">>, <<"n","i","g","h","t">>}

IdPool == {<<"C","S"," ","2","6","2","-","0","1">>, <<" ","C","S","C","I"," ","3","0","0","-","A"," ">>, <<"|">>, <<"I","n","t","r","o">>, <<"z","z">>}

\* the arguments of the combined filter, each also absent
FilterQueryPool == {<<" ","A","I"," ">>}

FilterDeptPool == {<<" ","c","s"," ">>}

FilterLevelPool == {<<"2","0","0">>, <<"1","2"," ","0","0">>, <<"1"," ","l","e","v","e","l"," ","3">>, <<"a","n","y">>}

FilterTimePool == {<<" ","E","v","e","n","i","n","g"," ">>, <<"n","i","g","h","t">>}

Opt(S) == {None} \cup {Str(x) : x \in S}

(***************************************************************************)
(* The conversational client (course_advisor_agent.py): Intent Resolver    *)
(***************************************************************************)
\* SUBJECT_ALIASES, as (key, value) pairs in the dict's insertion order
SUBJECT_ALIASES ==
    <<
       <<<<"c","s">>, <<"C","O","M","P","U","T","E","R"," ","S","C","I","E","N","C","E">>>>,
       <<<<"c","s","c","i">>, <<"C","O","M","P","U","T","E","R"," ","S","C","I","E","N","C","E">>>>,
       <<<<"c","o","m","p"," ","s","c","i">>, <<"C","O","M","P","U","T","E","R"," ","S","C","I","E","N","C","E">>>>,
       <<<<"c","o","m","p","u","t","e","r"," ","s","c","i","e","n","c","e">>, <<"C","O","M","P","U","T","E","R"," ","S","C","I","E","N","C","E">>>>,
       <<<<"e","n","g","l">>, <<"E","N","G","L","I","S","H">>>>,
       <<<<"e","n","g","l","i","s","h">>, <<"E","N","G","L","I","S","H">>>>,
       <<<<"m","a","t","h">>, <<"M","A","T","H","E","M","A","T","I","C","S">>>>,
       <<<<"m","a","t","h","e","m","a","t","i","c","s">>, <<"M","A","T","H","E","M","A","T","I","C","S">>>>,
       <<<<"p","h","y","s">>, <<"P","H","Y","S","I","C","S">>>>,
       <<<<"p","h","y","s","i","c","s">>, <<"P","H","Y","S","I","C","S">>>>,
       <<<<"b","i","o">>, <<"B","I","O","L","O","G","Y">>>>,
       <<<<"b","i","o","l","o","g","y">>, <<"B","I","O","L","O","G","Y">>>>,
       <<<<"c","h","e","m">>, <<"C","H","E","M","I","S","T","R","Y">>>>,
       <<<<"c","h","e","m","i","s","t","r","y">>, <<"C","H","E","M","I","S","T","R","Y">>>>,
       <<<<"p","h","i","l">>, <<"P","H","I","L","O","S","O","P","H","Y">>>>,
       <<<<"p","h","i","l","o","s","o","p","h","y">>, <<"P","H","I","L","O","S","O","P","H","Y">>>>,
       <<<<"e","c","o","n">>, <<"E","C","O","N","O","M","I","C","S">>>>,
       <<<<"e","c","o","n","o","m","i","c","s">>, <<"E","C","O","N","O","M","I","C","S">>>>,
       <<<<"s","o","c","i">>, <<"S","O","C","I","O","L","O","G","Y">>>>,
       <<<<"s","o","c","i","o","l","o","g","y">>, <<"S","O","C","I","O","L","O","G","Y">>>>,
       <<<<"p","s","y","c","h">>, <<"P","S","Y","C","H","O","L","O","G","Y">>>>,
       <<<<"p","s","y","c","h","o","l","o","g","y">>, <<"P","S","Y","C","H","O","L","O","G","Y">>>>,
       <<<<"h","i","s","t">>, <<"H","I","S","T","O","R","Y">>>>,
       <<<<"h","i","s","t","o","r","y">>, <<"H","I","S","T","O","R","Y">>>>,
       <<<<"d","a","t","a">>, <<"D","A","T","A"," ","S","C","I","E","N","C","E">>>>,
       <<<<"d","a","t","a"," ","s","c","i","e","n","c","e">>, <<"D","A","T","A"," ","S","C","I","E","N","C","E">>>>,
       <<<<"i","s">>, <<"I","N","F","O","R","M","A","T","I","O","N"," ","S","Y","S","T","E","M","S"," ","(","I","N","F","O",")">>>>,
       <<<<"i","n","f","o">>, <<"I","N","F","O","R","M","A","T","I","O","N"," ","S","Y","S","T","E","M","S"," ","(","I","N","F","O",")">>>>,
       <<<<"i","n","f","o","r","m","a","t","i","o","n"," ","s","y","s","t","e","m","s">>, <<"I","N","F","O","R","M","A","T","I","O","N"," ","S","Y","S","T","E","M","S"," ","(","I","N","F","O",")">>>>,
       <<<<"s","p","a","u","d">>, <<"S","P","E","E","C","H"," ","P","A","T","H","O","L","O","G","Y"," ","&"," ","A","U","D","I","O","L","O","G","Y">>>>,
       <<<<"n","u","r","s","i","n","g">>, <<"N","U","R","S","I","N","G">>>>,
       <<<<"c","o","m","m">>, <<"C","O","M","M","U","N","I","C","A","T","I","O","N">>>>,
       <<<<"c","o","m","m","u","n","i","c","a","t","i","o","n">>, <<"C","O","M","M","U","N","I","C","A","T","I","O","N">>>>,
       <<<<"p","e">>, <<"P","H","Y","S","I","C","A","L"," ","E","D","U","C","A","T","I","O","N"," ","&"," ","R","E","C","R","E","A","T","I","O","N">>>>,
       <<<<"k","i","n","e","s">>, <<"K","I","N","E","S","I","O","L","O","G","Y">>>>,
       <<<<"k","i","n","e","s","i","o","l","o","g","y">>, <<"K","I","N","E","S","I","O","L","O","G","Y">>>>,
       <<<<"b","u","s">>, <<"B","U","S","I","N","E","S","S">>>>,
       <<<<"b","u","s","i","n","e","s","s">>, <<"B","U","S","I","N","E","S","S">>>>,
       <<<<"a","c","c","t">>, <<"A","C","C","O","U","N","T","I","N","G">>>>,
       <<<<"a","c","c","o","u","n","t","i","n","g">>, <<"A","C","C","O","U","N","T","I","N","G">>>>,
       <<<<"s","t","a","t","s">>, <<"S","T","A","T","I","S","T","I","C","S">>>>,
       <<<<"s","t","a","t","i","s","t","i","c","s">>, <<"S","T","A","T","I","S","T","I","C","S">>>>,
       <<<<"r","e","l","i","g","i","o","n">>, <<"R","E","L","I","G","I","O","N">>>>,
       <<<<"m","u","s","i","c">>, <<"M","U","S","I","C">>>>,
       <<<<"s","t","u","d","i","o"," ","a","r","t">>, <<"S","T","U","D","I","O"," ","A","R","T">>>>,
       <<<<"a","r","t">>, <<"A","R","T">>>>,
       <<<<"a","r","t"," ","h","i","s","t","o","r","y">>, <<"A","R","T"," ","H","I","S","T","O","R","Y">>>>,
       <<<<"t","h","e","a","t","r","e">>, <<"T","H","E","A","T","R","E">>>>,
       <<<<"t","h","e","a","t","e","r">>, <<"T","H","E","A","T","R","E">>>>,
       <<<<"s","p","a","n","i","s","h">>, <<"S","P","A","N","I","S","H">>>>,
       <<<<"g","e","r","m","a","n">>, <<"G","E","R","M","A","N">>>>,
       <<<<"f","r","e","n","c","h">>, <<"F","R","E","N","C","H">>>>,
       <<<<"d","u","t","c","h">>, <<"D","U","T","C","H">>>>,
       <<<<"c","h","i","n","e","s","e">>, <<"C","H","I","N","E","S","E">>>>,
       <<<<"k","o","r","e","a","n">>, <<"K","O","R","E","A","N">>>>,
       <<<<"g","e","o","l","o","g","y">>, <<"G","E","O","L","O","G","Y"," ","&"," ","G","E","O","G","R","A","P","H","Y">>>>,
       <<<<"g","e","o","g","r","a","p","h","y">>, <<"G","E","O","L","O","G","Y"," ","&"," ","G","E","O","G","R","A","P","H","Y">>>>,
       <<<<"e","n","v"," ","s","t","u","d","i","e","s">>, <<"E","N","V","I","R","O","N","M","E","N","T","A","L"," ","S","T","U","D","I","E","S">>>>,
       <<<<"e","n","v","i","r","o","n","m","e","n","t","a","l"," ","s","t","u","d","i","e","s">>, <<"E","N","V","I","R","O","N","M","E","N","T","A","L"," ","S","T","U","D","I","E","S">>>>,
       <<<<"p","u","b","l","i","c"," ","h","e","a","l","t","h">>, <<"P","U","B","L","I","C"," ","H","E","A","L","T","H">>>>,
       <<<<"p","o","l","i","t","i","c","s">>, <<"P","O","L","I","T","I","C","S">>>>,
       <<<<"f","i","n","a","n","c","e">>, <<"F","I","N","A","N","C","E">>>>,
       <<<<"m","a","r","k","e","t","i","n","g">>, <<"M","A","R","K","E","T","I","N","G">>>>,
       <<<<"m","a","n","a","g","e","m","e","n","t">>, <<"M","A","N","A","G","E","M","E","N","T">>>>,
       <<<<"s","u","p","p","l","y"," ","c","h","a","i","n">>, <<"S","U","P","P","L","Y"," ","C","H","A","I","N"," ","M","A","N","A","G","E","M","E","N","T">>>>,
       <<<<"m","i","n","i","s","t","r","y"," ","l","e","a","d","e","r","s","h","i","p">>, <<"M","I","N","I","S","T","R","Y"," ","L","E","A","D","E","R","S","H","I","P">>>>,
       <<<<"b","i","o","c","h","e","m">>, <<"B","I","O","C","H","E","M","I","S","T","R","Y">>>>,
       <<<<"b","i","o","c","h","e","m","i","s","t","r","y">>, <<"B","I","O","C","H","E","M","I","S","T","R","Y">>>>,
       <<<<"a","s","t","r","o","n","o","m","y">>, <<"A","S","T","R","O","N","O","M","Y">>>>,
       <<<<"c","a","l","v","i","n"," ","c","o","r","e">>, <<"C","A","L","V","I","N"," ","C","O","R","E">>>>
    >>

AliasKeys == [i \in 1..Len(SUBJECT_ALIASES) |-> SUBJECT_ALIASES[i][1]]

\* SUBJECT_ALIASES.values()
AliasValues == {SUBJECT_ALIASES[i][2] : i \in 1..Len(SUBJECT_ALIASES)}

\* SUBJECT_ALIASES[key]
AliasValue(key) ==
    SUBJECT_ALIASES[CHOOSE i \in 1..Len(SUBJECT_ALIASES) : SUBJECT_ALIASES[i][1] = key][2]

LongestKey == CHOOSE n \in {Len(AliasKeys[i]) : i \in 1..Len(AliasKeys)} :
                  \A i \in 1..Len(AliasKeys) : Len(AliasKeys[i]) <= n

\* the keys of length <= n, longest first; equal lengths keep their order
\* (sorted(..., key=len, reverse=True) is stable)
RECURSIVE KeysByLength(_)
KeysByLength(n) ==
    IF n = 0 THEN <<>>
    ELSE SelectSeq(AliasKeys, LAMBDA k : Len(k) = n) \o KeysByLength(n - 1)

SortedAliasKeys == KeysByLength(LongestKey)

\* \bP\b matches s at i, for a pattern P of literal characters that starts
\* and ends with a \w character
WordBoundedAt(s, p, i) ==
    /\ OccursAt(s, p, i)
    /\ ~WordAt(s, i - 1)
    /\ ~WordAt(s, i + Len(p))

\* re.search(rf"\b{re.escape(p)}\b", s)
WordSearch(s, p) == \E i \in 1..Len(s) : WordBoundedAt(s, p, i)

_normalize_department(text) ==
    LET ul   == Lower(text)
        hits == {i \in 1..Len(SortedAliasKeys) : WordSearch(ul, SortedAliasKeys[i])}
    IN  IF hits = {} THEN None ELSE Str(AliasValue(SortedAliasKeys[MinOf(hits)]))

\* the regex class [A-Za-z&\s]
IsSubjectCh(c) == IsUpperCh(c) \/ IsLowerCh(c) \/ c = "&" \/ IsSpace(c)

\* \b([A-Z][A-Za-z&\s]+)\b matches s at i with n characters
SubjectRunAt(s, i, n) ==
    /\ n >= 2
    /\ i + n - 1 <= Len(s)
    /\ IsUpperCh(s[i])
    /\ ~WordAt(s, i - 1)
    /\ \A j \in (i + 1)..(i + n - 1) : IsSubjectCh(s[j])
    /\ WordAt(s, i + n - 1) # WordAt(s, i + n)

SubjectRunStarts(s) == {i \in 1..Len(s) : \E n \in 2..Len(s) : SubjectRunAt(s, i, n)}

MaxOf(S) == CHOOSE i \in S : \A j \in S : j <= i

\* m.group(1).strip().upper() of the first match, the + being greedy
SubjectCandidate(s) ==
    LET i == MinOf(SubjectRunStarts(s))
        n == MaxOf({k \in 2..Len(s) : SubjectRunAt(s, i, k)})
    IN  Upper(Strip(SubSeq(s, i, i + n - 1)))

\* lines 77-86: the alias scan, then the subject name as typed
DetectDepartment(utterance) ==
    LET dep == _normalize_department(utterance)
    IN  IF Truthy(dep) THEN dep
        ELSE IF SubjectRunStarts(utterance) # {}
                /\ SubjectCandidate(utterance) \in AliasValues
             THEN Str(SubjectCandidate(utterance))
             ELSE dep

LevelDigits == {"1", "2", "3", "4"}

\* \b(1|2|3|4)00\b matches u at i
HundredsAt(u, i) ==
    /\ i + 2 <= Len(u)
    /\ u[i] \in LevelDigits
    /\ u[i + 1] = "0"
    /\ u[i + 2] = "0"
    /\ ~WordAt(u, i - 1)
    /\ ~WordAt(u, i + 3)

\* \b([1-4])\s*xx\b matches u at i with k whitespace characters
DigitXXAt(u, i, k) ==
    /\ i + k + 2 <= Len(u)
    /\ u[i] \in LevelDigits
    /\ ~WordAt(u, i - 1)
    /\ \A j \in (i + 1)..(i + k) : IsSpace(u[j])
    /\ u[i + k + 1] = "x"
    /\ u[i + k + 2] = "x"
    /\ ~WordAt(u, i + k + 3)

\* lines 89-92: group(1) + "00" of the first pattern that matches
DetectLevel(u) ==
    LET h == {i \in 1..Len(u) : HundredsAt(u, i)}
        x == {i \in 1..Len(u) : \E k \in 0..Len(u) : DigitXXAt(u, i, k)}
    IN  IF h # {} THEN Str(<<u[MinOf(h)], "0", "0">>)
        ELSE IF x # {} THEN Str(<<u[MinOf(x)], "0", "0">>)
        ELSE None

TimeWords == <<morning, afternoon, evening>>

\* line 95: the first of the three words, in this order, that u contains
DetectTimeOfDay(u) ==
    LET hits == {i \in 1..Len(TimeWords) : InStr(TimeWords[i], u)}
    IN  IF hits = {} THEN None ELSE Str(TimeWords[MinOf(hits)])

\* line 98
HasTrigger(u) ==
    \/ InStr(<<"d","e","t","a","i","l","s">>, u)
    \/ InStr(<<"t","e","l","l"," ","m","e"," ","m","o","r","e">>, u)
    \/ InStr(<<"i","d"," ">>, u)

\* \b([A-Z]{2,10}\s*\d{2,3}-[A-Z0-9]{1,3})\b matches s from i to e
SectionIdAt(s, i, e) ==
    /\ ~WordAt(s, i - 1)
    /\ \E a \in 2..10 :
        /\ i + a - 1 <= Len(s)
        /\ \A j \in i..(i + a - 1) : IsUpperCh(s[j])
        /\ \E w \in 0..(Len(s) - i) :
            /\ i + a + w - 1 <= Len(s)
            /\ \A j \in (i + a)..(i + a + w - 1) : IsSpace(s[j])
            /\ \E d \in 2..3 :
                /\ i + a + w + d <= Len(s)
                /\ \A j \in (i + a + w)..(i + a + w + d - 1) : IsDigit(s[j])
                /\ s[i + a + w + d] = "-"
                /\ \E k \in 1..3 :
                    /\ e = i + a + w + d + k
                    /\ e <= Len(s)
                    /\ \A j \in (i + a + w + d + 1)..e :
                          IsUpperCh(s[j]) \/ IsDigit(s[j])
                    /\ ~WordAt(s, e + 1)

SectionIdStarts(s) == {i \in 1..Len(s) : \E e \in i..Len(s) : SectionIdAt(s, i, e)}

\* \b(\d{5,})\b matches u from i to e
LongNumberAt(u, i, e) ==
    /\ e - i + 1 >= 5
    /\ \A j \in i..e : IsDigit(u[j])
    /\ ~WordAt(u, i - 1)
    /\ ~WordAt(u, e + 1)

LongNumberStarts(u) == {i \in 1..Len(u) : \E e \in i..Len(u) : LongNumberAt(u, i, e)}

\* lines 99-100: group(1) of the section-id pattern in the utterance as
\* typed, else of the digit run in the lowercased utterance, else None
DetectSectionId(utterance, u) ==
    IF SectionIdStarts(utterance) # {}
    THEN LET i == MinOf(SectionIdStarts(utterance))
             e == MaxOf({x \in i..Len(utterance) : SectionIdAt(utterance, i, x)})
         IN  Str(SubSeq(utterance, i, e))
    ELSE IF LongNumberStarts(u) # {}
    THEN LET i == MinOf(LongNumberStarts(u))
             e == MaxOf({x \in i..Len(u) : LongNumberAt(u, i, x)})
         IN  Str(SubSeq(u, i, e))
    ELSE None

\* the alternatives of the keyword pattern, line 109
TopicKeywords ==
    { <<"a","i">>,
       <<"d","a","t","a">>,
       <<"e","t","h","i","c","s">>,
       <<"s","e","c","u","r","i","t","y">>,
       <<"w","r","i","t","i","n","g">>,
       <<"t","h","e","a","t","r","e">>,
       <<"m","u","s","i","c">>,
       <<"h","i","s","t","o","r","y">>,
       <<"g","l","o","b","a","l">>,
       <<"j","u","s","t","i","c","e">>,
       <<"p","s","y","c","h","o","l","o","g","y">>,
       <<"n","e","t","w","o","r","k">>,
       <<"b","i","o","l","o","g","y">>,
       <<"c","h","e","m","i","s","t","r","y">> }

HasKeyword(u) == \E kw \in TopicKeywords : WordSearch(u, kw)

\* the fixed limit of line 106
FilterLimit == 20

NoTool == "none"

NoIntent == [tool |-> NoTool, args |-> [k \in {} |-> None]]

DetailsIntent(sid) ==
    [tool |-> "get_section_details",
     args |-> [k \in {"section_id"} |-> Str(Strip(sid.s))]]

FilteredIntent(dep, lvl, tod) ==
    [tool |-> "find_sections_filtered",
     args |-> [k \in {"department", "level", "time_of_day", "limit"} |->
                  CASE k = "department"  -> dep
                    [] k = "level"       -> lvl
                    [] k = "time_of_day" -> tod
                    [] k = "limit"       -> Num(FilterLimit)]]

CoursesIntent(q) == [tool |-> "find_courses", args |-> [k \in {"query"} |-> Str(q)]]

\* the resolver with the combined filter tried before the id lookup
detect_intent_filter_first(utterance) ==
    LET u   == Lower(utterance)
        dep == DetectDepartment(utterance)
        lvl == DetectLevel(u)
        tod == DetectTimeOfDay(u)
        sid == IF HasTrigger(u) THEN DetectSectionId(utterance, u) ELSE None
    IN  IF Truthy(dep) \/ Truthy(lvl) \/ Truthy(tod)
        THEN FilteredIntent(dep, lvl, tod)
        ELSE IF Truthy(sid) THEN DetailsIntent(sid)
        ELSE IF HasKeyword(u) THEN CoursesIntent(utterance)
        ELSE NoIntent

detect_intent(utterance) ==
    LET u   == Lower(utterance)
        dep == DetectDepartment(utterance)
        lvl == DetectLevel(u)
        tod == DetectTimeOfDay(u)
        sid == IF HasTrigger(u) THEN DetectSectionId(utterance, u) ELSE None
    IN  IF Truthy(sid) THEN DetailsIntent(sid)
        ELSE IF Truthy(dep) \/ Truthy(lvl) \/ Truthy(tod)
             THEN FilteredIntent(dep, lvl, tod)
        ELSE IF HasKeyword(u) THEN CoursesIntent(utterance)
        ELSE NoIntent

\* the client's state: where the loop of main() stands, whether the service
\* lists the combined filter, the line read, the intent detected and the
\* one dispatched, the calls awaited now, and, for the current utterance,
\* the calls made and the events logged
NoAgent ==
    [pc |-> "off", has_combined |-> FALSE, user |-> <<>>, detected |-> NoIntent,
     intent |-> NoIntent, inflight |-> 0, calls |-> 0, log |-> <<>>]

(***************************************************************************)
(* The service: a call is answered from the immutable dataset              *)
(***************************************************************************)
NoCall ==
    [tool |-> "none", query |-> None, department |-> None, level |-> None,
     time_of_day |-> None, limit |-> 0, section_id |-> None, course_title |-> None]

NoFields ==
    [done |-> FALSE, id |-> <<>>, name |-> <<>>, title |-> <<>>, desc |-> <<>>,
     dept |-> <<>>, level |-> <<>>, time |-> <<>>]

Init ==
    /\ dataset \in Datasets
    /\ call = NoCall
    /\ result = NoResult
    /\ rec = BlankRecord
    /\ fields = NoFields
    /\ t = <<>>
    /\ label = <<>>
    /\ inBin = FALSE
    /\ agent = NoAgent

\* no request is being answered
Idle == call.tool = "none"

FindCourses ==
    /\ Idle
    /\ \E q \in QueryPool :
        /\ call' = [NoCall EXCEPT !.tool = "find_courses", !.query = Str(q)]
        /\ result' = find_courses(dataset, q)
        /\ UNCHANGED <<agent, dataset, rec, fields, t, label, inBin>>

FindSections ==
    /\ Idle
    /\ \E q \in QueryPool :
        /\ call' = [NoCall EXCEPT !.tool = "find_sections", !.course_title = Str(q)]
        /\ result' = find_sections(dataset, q)
        /\ UNCHANGED <<agent, dataset, rec, fields, t, label, inBin>>

FindSectionsByDepartment ==
    /\ Idle
    /\ \E d \in DeptPool :
        /\ call' = [NoCall EXCEPT !.tool = "find_sections_by_department",
                                  !.department = Str(d)]
        /\ result' = find_sections_by_department(dataset, d)
        /\ UNCHANGED <<agent, dataset, rec, fields, t, label, inBin>>

FindSectionsByLevel ==
    /\ Idle
    /\ \E l \in LevelPool :
        /\ call' = [NoCall EXCEPT !.tool = "find_sections_by_level", !.level = Str(l)]
        /\ result' = find_sections_by_level(dataset, l)
        /\ UNCHANGED <<agent, dataset, rec, fields, t, label, inBin>>

FindSectionsByTime ==
    /\ Idle
    /\ \E b \in TimePool :
        /\ call' = [NoCall EXCEPT !.tool = "find_sections_by_time",
                                  !.time_of_day = Str(b)]
        /\ result' = find_sections_by_time(dataset, b)
        /\ UNCHANGED <<agent, dataset, rec, fields, t, label, inBin>>

\* the ids asked for: those of the dataset's records, and the pool's
AskedIds == IdPool \cup {sec_id(dataset[i]) : i \in 1..Len(dataset)}

GetSectionDetails ==
    /\ Idle
    /\ \E sid \in AskedIds :
        /\ call' = [NoCall EXCEPT !.tool = "get_section_details",
                                  !.section_id = Str(sid)]
        /\ result' = get_section_details(dataset, sid)
        /\ UNCHANGED <<agent, dataset, rec, fields, t, label, inBin>>

FindSectionsFiltered ==
    /\ Idle
    /\ \E q \in Opt(FilterQueryPool), d \in Opt(FilterDeptPool),
          l \in Opt(FilterLevelPool), b \in Opt(FilterTimePool), n \in 0..MaxLimit :
        /\ call' = [NoCall EXCEPT !.tool = "find_sections_filtered", !.query = q,
                                  !.department = d, !.level = l,
                                  !.time_of_day = b, !.limit = n]
        /\ result' = find_sections_filtered(dataset, q, d, l, b, n)
        /\ UNCHANGED <<agent, dataset, rec, fields, t, label, inBin>>

\* the answer is sent; the service waits for the next request
Reply ==
    /\ ~Idle
    /\ call' = NoCall
    /\ result' = NoResult
    /\ UNCHANGED <<agent, dataset, rec, fields, t, label, inBin>>

Next ==
    \/ FindCourses
    \/ FindSections
    \/ FindSectionsByDepartment
    \/ FindSectionsByLevel
    \/ FindSectionsByTime
    \/ GetSectionDetails
    \/ FindSectionsFiltered
    \/ Reply

Spec == Init /\ [][Next]_vars

(***************************************************************************)
(* The Record Normalizer on loosely typed records                          *)
(***************************************************************************)
\* what a field of a loosely typed record may hold: absent or null, blank,
\* text, the number 0, another number
WildValues == {None, Str(<<>>), Str(<<" "," ">>), Str(<<" ","x"," ">>), Num(0), Num(7)}

CrsValues == {None, Str(<<"5","0","5">>), Num(262), Str(<<"a","9">>), Str(<<"a","b","c">>)}

AcadValues == {None, Str(<<"3","0","0">>), Str(<<" ","4","0","0"," ">>), Str(<<"5","0","0">>), Num(200)}

WildRecords ==
    {[[[base EXCEPT !["Crs_Number"] = c] EXCEPT !["AcadLevel"] = a] EXCEPT ![key] = v] :
        base \in {BlankRecord, RecCS262}, c \in CrsValues, a \in AcadValues,
        key \in Keys, v \in WildValues}

InitNorm ==
    /\ rec \in WildRecords
    /\ dataset = <<rec>>
    /\ call = NoCall
    /\ result = NoResult
    /\ fields = NoFields
    /\ t = <<>>
    /\ label = <<>>
    /\ inBin = FALSE
    /\ agent = NoAgent

\* every derivation of the Normalizer, applied to the record
Normalize ==
    /\ ~fields.done
    /\ fields' = [done |-> TRUE, id |-> sec_id(rec), name |-> sec_name(rec),
                  title |-> sec_title(rec), desc |-> sec_desc(rec),
                  dept |-> sec_dept(rec), level |-> sec_level(rec),
                  time |-> sec_time_str(rec)]
    /\ UNCHANGED <<agent, dataset, call, result, rec, t, label, inBin>>

NextNorm ==
    \/ Normalize
    \/ FindCourses
    \/ Reply

SpecNorm == InitNorm /\ [][NextNorm]_vars

(***************************************************************************)
(* The Time Bucketer on meeting-time texts                                 *)
(***************************************************************************)
TimePrefixes == {<<>>, <<"M","W","F"," ">>}

TimeSuffixes == {<<>>, <<" ","A","M">>, <<" ","P","M">>, <<" ","p","m"," ","-"," ","1",":","0","0"," ","A","M">>, <<" ","-"," ","2",":","0","0"," ","P","M">>, <<"P","M">>}

MinuteTexts == {<<"0","0">>, <<"0","1">>, <<"5","9">>, <<"7","5">>}

HourTexts == {IntToStr(h) : h \in 0..MaxHour} \cup {Pad2(h) : h \in 0..MaxHour}

NoTimeTexts == {<<>>, <<"T","B","A">>, <<"9","3","0">>, <<"1","2","3",":","4","5">>, <<"9",":","5">>, <<"1","/","2","0"," ","-"," ","5","/","1","0">>}

TimeTexts ==
    NoTimeTexts \cup
    {p \o h \o <<":">> \o m \o x :
        p \in TimePrefixes, h \in HourTexts, m \in MinuteTexts, x \in TimeSuffixes}

Labels == BinNames \cup {<<"n","i","g","h","t">>, <<"M","o","r","n","i","n","g">>}

InitTime ==
    /\ t \in TimeTexts
    /\ label = <<>>
    /\ inBin = FALSE
    /\ agent = NoAgent
    /\ dataset = <<>>
    /\ call = NoCall
    /\ result = NoResult
    /\ rec = BlankRecord
    /\ fields = NoFields

Classify ==
    /\ label = <<>>
    /\ \E lab \in Labels :
        /\ label' = lab
        /\ inBin' = _time_in_bin(t, lab)
    /\ UNCHANGED <<agent, dataset, call, result, rec, fields, t>>

NextTime == Classify

SpecTime == InitTime /\ [][NextTime]_vars

(***************************************************************************)
(* The conversational client: the loop of main()                           *)
(***************************************************************************)
\* what the user types: an optional lead-in, a subject, trailing constraints
InputLeads ==
    { <<>>,
      <<"d","e","t","a","i","l","s"," ">>,
      <<"t","e","l","l"," ","m","e"," ","m","o","r","e"," ","a","b","o","u","t"," ">>,
      <<"v","a","l","i","d"," ">> }

InputSubjects ==
    { <<>>,
      <<"C","S"," ","2","6","2","-","0","1">>,
      <<"c","s"," ","2","6","2","-","0","1">>,
      <<"1","2","3","4","5">>,
      <<"E","N","G","L"," ","3","0","0","-","A">>,
      <<"x","1","2","3","4","5">>,
      <<"d","a","t","a"," ","s","c","i","e","n","c","e">>,
      <<"S","p","e","e","c","h"," ","P","a","t","h","o","l","o","g","y"," ","&"," ","A","u","d","i","o","l","o","g","y">>,
      <<"A","I">>,
      <<"h","e","l","l","o">> }

InputTails ==
    { <<>>,
      <<" ","3","0","0"," ","e","v","e","n","i","n","g">>,
      <<" ","2"," ","X","X">>,
      <<" ","a","f","t","e","r","n","o","o","n"," ","m","o","r","n","i","n","g">>,
      <<" ","e","t","h","i","c","s">> }

InputSpecials ==
    { <<"e","x","i","t">>,
      <<" ","Q","U","I","T"," ">>,
      <<" "," ">>,
      <<"I"," ","w","a","n","t"," ","s","o","m","e","t","h","i","n","g"," ","a","b","o","u","t"," ","A","I">> }

RawInputs ==
    InputSpecials \cup {a \o b \o c : a \in InputLeads, b \in InputSubjects, c \in InputTails}

\* the dataset the connected service answers from
AgentDatasets == {<<RecCS262, RecCSCI300>>}

\* line 149
IsExit(user) == Lower(user) \in {<<"e","x","i","t">>, <<"q","u","i","t">>}

\* lines 156-165: without the combined filter, the single most specific tool
Fallback(intent, has_combined) ==
    IF intent.tool = "find_sections_filtered" /\ ~has_combined
    THEN LET dep == intent.args["department"]
             lvl == intent.args["level"]
             tod == intent.args["time_of_day"]
         IN  IF Truthy(dep)
             THEN [tool |-> "find_sections_by_department",
                   args |-> [k \in {"department"} |-> dep]]
             ELSE IF Truthy(lvl)
             THEN [tool |-> "find_sections_by_level", args |-> [k \in {"level"} |-> lvl]]
             ELSE IF Truthy(tod)
             THEN [tool |-> "find_sections_by_time",
                   args |-> [k \in {"time_of_day"} |-> tod]]
             ELSE NoIntent
    ELSE intent

\* line 167: not intent["tool"]
\* a loop that sends a request whatever was resolved
UnresolvedNever(intent) == FALSE

Unresolved(intent) == intent.tool = NoTool

\* the request call_tool(intent["tool"], intent["args"]) sends
ToolCall(intent) ==
    CASE intent.tool = "get_section_details" ->
            [NoCall EXCEPT !.tool = intent.tool, !.section_id = intent.args["section_id"]]
      [] intent.tool = "find_sections_filtered" ->
            [NoCall EXCEPT !.tool = intent.tool,
                           !.department = intent.args["department"],
                           !.level = intent.args["level"],
                           !.time_of_day = intent.args["time_of_day"],
                           !.limit = intent.args["limit"].n]
      [] intent.tool = "find_courses" ->
            [NoCall EXCEPT !.tool = intent.tool, !.query = intent.args["query"]]
      [] intent.tool = "find_sections_by_department" ->
            [NoCall EXCEPT !.tool = intent.tool, !.department = intent.args["department"]]
      [] intent.tool = "find_sections_by_level" ->
            [NoCall EXCEPT !.tool = intent.tool, !.level = intent.args["level"]]
      [] intent.tool = "find_sections_by_time" ->
            [NoCall EXCEPT !.tool = intent.tool,
                           !.time_of_day = intent.args["time_of_day"]]
      [] OTHER -> [NoCall EXCEPT !.tool = "unknown"]

\* what the service answers to a request
Serve(ds, c) ==
    CASE c.tool = "get_section_details" -> get_section_details(ds, c.section_id.s)
      [] c.tool = "find_sections_filtered" ->
            find_sections_filtered(ds, c.query, c.department, c.level,
                                   c.time_of_day, c.limit)
      [] c.tool = "find_courses" -> find_courses(ds, c.query.s)
      [] c.tool = "find_sections_by_department" ->
            find_sections_by_department(ds, c.department.s)
      [] c.tool = "find_sections_by_level" -> find_sections_by_level(ds, c.level.s)
      [] c.tool = "find_sections_by_time" -> find_sections_by_time(ds, c.time_of_day.s)
      [] OTHER -> RaiseResult

InitAgent ==
    /\ dataset \in AgentDatasets
    /\ call = NoCall
    /\ result = NoResult
    /\ rec = BlankRecord
    /\ fields = NoFields
    /\ t = <<>>
    /\ label = <<>>
    /\ inBin = FALSE
    /\ \E hc \in BOOLEAN : agent = [NoAgent EXCEPT !.pc = "input", !.has_combined = hc]

\* lines 148-151: read a line; exit, skip a blank line, or accept it.  The
\* previous turn's intent, request and answer are never read again.
ReadInput ==
    /\ agent.pc = "input"
    /\ \E raw \in RawInputs :
        LET user == Strip(raw)
        IN  IF IsExit(user)
            THEN /\ agent' = [agent EXCEPT !.pc = "done", !.user = user]
                 /\ UNCHANGED <<call, result>>
            ELSE IF user = <<>>
            THEN /\ agent' = [agent EXCEPT !.user = user]
                 /\ UNCHANGED <<call, result>>
            ELSE /\ agent' = [agent EXCEPT !.pc = "resolve", !.user = user,
                                           !.detected = NoIntent, !.intent = NoIntent,
                                           !.calls = 0, !.log = <<>>]
                 /\ call' = NoCall
                 /\ result' = NoResult
    /\ UNCHANGED <<dataset, rec, fields, t, label, inBin>>

\* lines 153-165: log the utterance, resolve its intent, apply the fallback
Resolve ==
    /\ agent.pc = "resolve"
    /\ LET intent == detect_intent(agent.user)
       IN  agent' = [agent EXCEPT !.pc = "dispatch",
                                  !.log = Append(@, "user"),
                                  !.detected = intent,
                                  !.intent = Fallback(intent, agent.has_combined)]
    /\ UNCHANGED <<dataset, call, result, rec, fields, t, label, inBin>>

\* lines 167-170: no tool, ask a clarifying question and read the next line
Clarify ==
    /\ agent.pc = "dispatch"
    /\ Unresolved(agent.intent)
    /\ agent' = [agent EXCEPT !.pc = "input", !.log = Append(@, "assistant")]
    /\ UNCHANGED <<dataset, call, result, rec, fields, t, label, inBin>>

\* lines 172-173: the request is sent and the loop awaits the answer
CallTool ==
    /\ agent.pc = "dispatch"
    /\ ~Unresolved(agent.intent)
    /\ call' = ToolCall(agent.intent)
    /\ agent' = [agent EXCEPT !.pc = "await", !.calls = @ + 1, !.inflight = @ + 1]
    /\ UNCHANGED <<dataset, result, rec, fields, t, label, inBin>>

\* the service answers; the awaited call_tool returns
ToolReturns ==
    /\ agent.pc = "await"
    /\ result' = Serve(dataset, call)
    /\ agent' = [agent EXCEPT !.pc = "present", !.inflight = @ - 1]
    /\ UNCHANGED <<dataset, call, rec, fields, t, label, inBin>>

\* lines 175-202: render the payload, print and log it
Present ==
    /\ agent.pc = "present"
    /\ agent' = [agent EXCEPT !.pc = "input", !.log = Append(@, "assistant")]
    /\ UNCHANGED <<dataset, call, result, rec, fields, t, label, inBin>>

NextAgent ==
    \/ ReadInput
    \/ Resolve
    \/ Clarify
    \/ CallTool
    \/ ToolReturns
    \/ Present

SpecAgent == InitAgent /\ [][NextAgent]_vars

(***************************************************************************)
(* Properties                                                              *)
(***************************************************************************)
\* the k-th smallest element of a set of positions
Kth(S, k) == CHOOSE i \in S : Cardinality({j \in S : j <= i}) = k

MinInt(a, b) == IF a < b THEN a ELSE b

\* the conjunction of the predicates a combined-filter call provides, stated
\* on one record
RecMatches(s, c) ==
    /\ FilterQuery(c.query) # <<>> => _contains(TitleDesc(s), FilterQuery(c.query))
    /\ FilterDep(c.department) # <<>> =>
          StartsWith(Upper(sec_dept(s)), FilterDep(c.department))
    /\ FilterLevel(c.level) # <<>> => sec_level(s) = FilterLevel(c.level)
    /\ FilterBucket(c.time_of_day) # <<>> =>
          _time_in_bin(sec_time_str(s), FilterBucket(c.time_of_day))

\* the positions of the dataset's records that match the call
MatchIdx == {i \in 1..Len(dataset) : RecMatches(dataset[i], call)}

IsFiltered == call.tool = "find_sections_filtered"

\* C1: with limit >= 1, find_sections_filtered returns exactly the first
\* min(limit, number of matches) matching records, in dataset order: never
\* more than limit, never a later match in place of an earlier one.
C1_FirstMatchesInOrder ==
    (IsFiltered /\ call.limit >= 1) =>
        LET M == MatchIdx
        IN  /\ result.kind = "list"
            /\ Len(result.items) = MinInt(call.limit, Cardinality(M))
            /\ \A k \in 1..Len(result.items) :
                  result.items[k] = Summary7(dataset[Kth(M, k)])

\* C1 witness: two records match, the limit is 1, and the call returned the
\* first of them alone.
C1_Witness ==
    /\ IsFiltered
    /\ call.limit = 1
    /\ call.department # None
    /\ Cardinality(MatchIdx) = 2
    /\ Len(result.items) = 1
    /\ result.items[1] = Summary7(dataset[1])

\* the section ids a capability returned
IdsOf(r) == {r.items[k].section_id : k \in 1..Len(r.items)}

\* C2: every record the combined filter returns is returned, by section id,
\* by each single-predicate capability called with the same argument, for
\* every argument the combined filter was given and applies as a constraint;
\* in particular both canonicalize the level string to the same level.
C2_AndSemantics ==
    IsFiltered =>
        \A k \in 1..Len(result.items) :
            LET sid == result.items[k].section_id
            IN  /\ FilterQuery(call.query) # <<>> =>
                      sid \in IdsOf(find_courses(dataset, call.query.s))
                /\ FilterDep(call.department) # <<>> =>
                      sid \in IdsOf(find_sections_by_department(dataset, call.department.s))
                /\ FilterLevel(call.level) # <<>> =>
                      sid \in IdsOf(find_sections_by_level(dataset, call.level.s))
                /\ FilterBucket(call.time_of_day) # <<>> =>
                      sid \in IdsOf(find_sections_by_time(dataset, call.time_of_day.s))

CanonicalLevels == {<<>>, <<"1","0","0">>, <<"2","0","0">>, <<"3","0","0">>, <<"4","0","0">>}

\* C3: the normalized level of every raw record is one of "", "100", "200",
\* "300", "400".
C3_LevelCanonical == fields.done => fields.level \in CanonicalLevels

\* the parsed clock time of the text, in minutes after midnight
ClockHour == Hour24(t)

ClockMinute == StrToInt(TimeSearch(t).mm)

ValidClock ==
    /\ TimeSearch(t).found
    /\ ClockHour \in 0..23
    /\ ClockMinute \in 0..59

Clock == 60 * ClockHour + ClockMinute

\* the bucket a clock time belongs to: 06:00-11:59, 12:00-17:00, 17:01-22:59
ExpectedBucket ==
    IF Clock >= 6 * 60 /\ Clock <= 11 * 60 + 59 THEN morning
    ELSE IF Clock >= 12 * 60 /\ Clock <= 17 * 60 THEN afternoon
    ELSE IF Clock >= 17 * 60 + 1 /\ Clock <= 22 * 60 + 59 THEN evening
    ELSE <<>>

BucketsOf(s) == {b \in BinNames : _time_in_bin(s, b)}

\* C4: a text with no HH:MM, or an unknown bucket name, classifies false; a
\* text whose first HH:MM converts to an hour 0-23 and a minute 00-59
\* classifies true for the one bucket holding that time and for no other,
\* hence for exactly one bucket in 06:00-22:59 and for none outside.
C4_TimePartition ==
    /\ (label \notin BinNames \/ ~TimeSearch(t).found) => ~inBin
    /\ (ValidClock /\ label \in BinNames) => (inBin <=> label = ExpectedBucket)
    /\ ValidClock => Cardinality(BucketsOf(t)) <= 1
    /\ ValidClock =>
          (Cardinality(BucketsOf(t)) = 1 <=> (Clock >= 6 * 60 /\ Clock <= 22 * 60 + 59))

\* C4 witness: "5:00 PM" is converted to 17:00 and classified afternoon.
C4_Witness ==
    /\ label = afternoon
    /\ inBin
    /\ ValidClock
    /\ StrToInt(TimeSearch(t).hh) = 5
    /\ Clock = 17 * 60

IsDetails == call.tool = "get_section_details"

\* the positions of the records whose synthesized id is sid
IdHits(sid) == {i \in 1..Len(dataset) : sec_id(dataset[i]) = sid}

\* C5 as claimed: the id of a record of the dataset is found, and the answer
\* is the first record with that id, in full; an id equal to no record's id
\* gets the not-found result carrying the requested id.
C5_IdLookup_Original ==
    IsDetails =>
        IF IdHits(call.section_id.s) # {}
        THEN result = RecordResult(dataset[MinOf(IdHits(call.section_id.s))])
        ELSE result = NotFoundResult(call.section_id.s)

\* C5 amended: the requested id is trimmed first. The id of a record of the
\* dataset is found, and the answer is the first record with that id, in
\* full; an id whose trimmed form equals no record's id gets the not-found
\* result carrying the trimmed id.
C5_IdLookup ==
    IsDetails =>
        /\ IdHits(call.section_id.s) # {} =>
              result = RecordResult(dataset[MinOf(IdHits(call.section_id.s))])
        /\ IF IdHits(Strip(call.section_id.s)) # {}
           THEN result = RecordResult(dataset[MinOf(IdHits(Strip(call.section_id.s)))])
           ELSE result = NotFoundResult(Strip(call.section_id.s))

\* C5 witness: two different records share the requested id, which is the
\* second record's own id, and the first one is returned in full.
C5_Witness ==
    /\ IsDetails
    /\ Len(dataset) = 2
    /\ dataset[1] # dataset[2]
    /\ call.section_id.s = sec_id(dataset[2])
    /\ sec_id(dataset[1]) = sec_id(dataset[2])
    /\ result = RecordResult(dataset[1])

IsByDepartment == call.tool = "find_sections_by_department"

\* the positions of the records whose upper-cased department starts with d
PrefixIdx(d) == {i \in 1..Len(dataset) : StartsWith(Upper(sec_dept(dataset[i])), d)}

\* C6 as claimed: find_sections_by_department(D) returns, in dataset order,
\* exactly the records whose upper-cased department starts with D.upper().
C6_DepartmentPrefix_Original ==
    IsByDepartment =>
        LET P == PrefixIdx(Upper(call.department.s))
        IN  /\ result.kind = "list"
            /\ Len(result.items) = Cardinality(P)
            /\ \A k \in 1..Len(result.items) :
                  result.items[k] = Summary4(dataset[Kth(P, k)])

\* C6 amended: find_sections_by_department(D) returns, in dataset order,
\* exactly the records whose upper-cased department starts with the
\* upper-cased D with its surrounding whitespace removed.
C6_DepartmentPrefix ==
    IsByDepartment =>
        LET P == PrefixIdx(Upper(Strip(call.department.s)))
        IN  /\ result.kind = "list"
            /\ Len(result.items) = Cardinality(P)
            /\ \A k \in 1..Len(result.items) :
                  result.items[k] = Summary4(dataset[Kth(P, k)])

\* C6 witness: the code " cs " returned both a CSCI record, by prefix, and a
\* CS record.
C6_Witness ==
    /\ IsByDepartment
    /\ call.department.s # Strip(call.department.s)
    /\ dataset = <<RecCSCI300, RecCS262>>
    /\ Len(result.items) = 2

\* C7: every record the department filter returns for the code "CS" has a
\* section_name containing "CS", as test_department asserts.
C7_NameContainsDepartment ==
    (IsByDepartment /\ call.department = Str(<<"C","S">>)) =>
        \A k \in 1..Len(result.items) : InStr(<<"C","S">>, result.items[k].section_name)

\* C8: the Normalizer never raises: each derivation of a record with absent,
\* null, blank or non-string fields is a string, and no capability fails on it.
C8_NormalizerTotal ==
    /\ fields.done =>
          \A f \in {"id", "name", "title", "desc", "dept", "level", "time"} :
              ~Raised(fields[f])
    /\ result.kind # "raise"

\* the first 220 characters, with an ellipsis iff something was cut
TruncatedPreview(d) ==
    IF Len(d) > PreviewLen THEN SubSeq(d, 1, PreviewLen) \o <<Ellipsis>> ELSE d

\* C9: the preview of every returned record is the first 220 characters of
\* its description, followed by an ellipsis if and only if the description
\* is longer than 220 characters.
C9_PreviewEllipsis ==
    IsFiltered =>
        LET M == MatchIdx
        IN  \A k \in 1..Len(result.items) :
                result.items[k].preview = TruncatedPreview(sec_desc(dataset[Kth(M, k)]))

\* C10: a level with no digit to extract, or a time_of_day that names no
\* bucket, is no constraint: the result is that of the same call without it.
C10_InvalidArgumentsIgnored ==
    IsFiltered =>
        /\ (call.level # None /\ FilterLevel(call.level) = <<>>) =>
              result = find_sections_filtered(dataset, call.query, call.department,
                                              None, call.time_of_day, call.limit)
        /\ (call.time_of_day # None /\ FilterBucket(call.time_of_day) \notin BinNames) =>
              result = find_sections_filtered(dataset, call.query, call.department,
                                              call.level, None, call.limit)

\* the intent of the utterance in agent.user has been resolved
IntentResolved == agent.pc \in {"dispatch", "await", "present"}

\* the utterance holds a trigger phrase and an id pattern
AsksForDetails(utterance) ==
    /\ HasTrigger(Lower(utterance))
    /\ SectionIdStarts(utterance) # {} \/ LongNumberStarts(Lower(utterance)) # {}

\* C11: intent resolution is first-applicable-wins in a fixed order, for every
\* utterance: a trigger phrase with an id pattern gives get_section_details
\* with the captured id, whatever else was detected; otherwise a detected
\* department, level or time of day gives find_sections_filtered with exactly
\* the detected values, null for the others, and limit 20; otherwise a topical
\* keyword gives find_courses with the whole utterance as query; otherwise no
\* tool and empty args.
C11_FirstApplicableWins ==
    IntentResolved =>
        LET utt == agent.user
            u   == Lower(utt)
            dep == DetectDepartment(utt)
            lvl == DetectLevel(u)
            tod == DetectTimeOfDay(u)
            d   == agent.detected
        IN  IF AsksForDetails(utt)
            THEN /\ d.tool = "get_section_details"
                 /\ DOMAIN d.args = {"section_id"}
                 /\ d.args["section_id"] = DetectSectionId(utt, u)
            ELSE IF dep # None \/ lvl # None \/ tod # None
            THEN /\ d.tool = "find_sections_filtered"
                 /\ DOMAIN d.args = {"department", "level", "time_of_day", "limit"}
                 /\ d.args["department"] = dep
                 /\ d.args["level"] = lvl
                 /\ d.args["time_of_day"] = tod
                 /\ d.args["limit"] = Num(20)
            ELSE IF HasKeyword(u)
            THEN /\ d.tool = "find_courses"
                 /\ DOMAIN d.args = {"query"}
                 /\ d.args["query"] = Str(utt)
            ELSE /\ d.tool = NoTool
                 /\ DOMAIN d.args = {}

\* an utterance asking for details of an id, naming a department and a level
\* as well, resolved to the id lookup
C11_Witness ==
    /\ IntentResolved
    /\ AsksForDetails(agent.user)
    /\ DetectDepartment(agent.user) # None
    /\ DetectLevel(Lower(agent.user)) # None
    /\ agent.detected.tool = "get_section_details"

\* the loop is back at the prompt after the accepted utterance in agent.user
TurnOver ==
    /\ agent.pc = "input"
    /\ agent.user # <<>>
    /\ ~IsExit(agent.user)

\* C12 as stated: every accepted utterance produces exactly one invocation,
\* completed before the next utterance is read; never two in flight, never
\* zero or several for one utterance.
C12_OneCallPerUtterance_Original ==
    /\ agent.inflight <= 1
    /\ agent.calls <= 1
    /\ agent.pc = "input" => agent.inflight = 0
    /\ TurnOver => agent.calls = 1

\* C12, amended: an accepted utterance that resolves to a capability produces
\* exactly one invocation, completed before the next utterance is read; an
\* utterance that resolves to no capability produces none (it is answered
\* with a clarifying question); never two in flight, never several for one
\* utterance.
C12_OneCallPerUtterance ==
    /\ agent.inflight <= 1
    /\ agent.calls <= 1
    /\ agent.pc = "input" => agent.inflight = 0
    /\ TurnOver => agent.calls = (IF agent.intent.tool = NoTool THEN 0 ELSE 1)

\* a turn that ended after one invocation was answered with a list
C12_Witness ==
    /\ TurnOver
    /\ agent.calls = 1
    /\ agent.inflight = 0
    /\ result.kind = "list"

====
